---- MODULE Spec2Model ----
(***************************************************************************)
(* FAAAQueue (src/src/lib.rs): a lock-free MPMC queue made of linked       *)
(* fixed-capacity segments (Node), indexed by fetch-and-add cursors, with  *)
(* hazard-pointer protection of the head and tail segments.                *)
(*                                                                         *)
(* Every atomic access of the source (SeqCst) is one action.  A segment is *)
(* an entry of the heap `segs`, addressed by its position (a pointer is a  *)
(* position, 0 is the null pointer).  Heap entries are never re-used, so   *)
(* a freed segment stays recognisable.                                     *)
(***************************************************************************)
EXTENDS Integers, Sequences, FiniteSets, TLC

\* ------------------------------------------------------------------ bounds
\* lib.rs:9 sets BUFFER_SIZE to 1024; the model keeps the segment protocol and
\* scales the capacity down so that segment boundaries are crossed.
BUFFER_SIZE == 2

NThreads == 3      \* threads of the concurrent workloads
SeqEnq == 5        \* enqueues of the single-thread workload (2*BUFFER_SIZE + 1)
HoleDeqs == 3      \* dequeues of the consumer racing a producer for slots

Threads == 1..NThreads
NULL == 0          \* the null pointer (an Empty slot, a missing next link)
TAKEN == -1        \* the sentinel a consumer leaves in a slot (lib.rs:122)
NONE == -2         \* dequeue's None

VARIABLES
    segs,      \* the heap of Node values, a sequence; a pointer is an index
    head,      \* FAAAQueue.head
    tail,      \* FAAAQueue.tail
    hp,        \* hp[t]: the segment thread t's HazardPointer protects, or NULL
    pc,        \* pc[t]: where thread t stands in enqueue / dequeue
    ltail,     \* local: ltail of enqueue, lhead of dequeue
    idx,       \* local: idx
    lnext,     \* local: lnext, new_node
    item,      \* local: item_ptr of the enqueue in progress
    deqSeen,   \* local: the value dequeue_index.load() returned at line 100,
               \*        kept until the fetch_add of line 105
    calls,     \* calls[t]: the calls thread t still makes
    warm,      \* calls thread 1 still makes before the other threads start
    dropped,   \* the queue has been destroyed (Drop ran)
    uaf,       \* some access went to a freed segment
    badDrop,   \* Drop handed the Taken sentinel to Box::from_raw
    clock,     \* history: number of call and return events so far
    hist,      \* history: per item, the times of its enqueue and dequeue
    empties,   \* history: the dequeues that returned None, as intervals
    opInv,     \* history: the time the operation in progress was called
    alone,     \* history: the dequeue in progress started in a quiescent
               \*          state holding an item and nobody else has acted since
    lastRet,   \* history: what the last return of thread t delivered
    actors,    \* history: threads that ever called an operation
    holes,     \* history: the slots a dequeue swapped from Empty to Taken
    stalled    \* the thread that may be suspended forever, or 0 for none

vars == <<segs, head, tail, hp, pc, ltail, idx, lnext, item, deqSeen, calls,
          warm, dropped, uaf, badDrop, clock, hist, empties, opInv, alone,
          lastRet, actors, holes, stalled>>

locals == <<ltail, idx, lnext, item, deqSeen>>
budget == <<calls>>
history == <<clock, hist, empties, opInv, lastRet, actors>>
fixed == <<holes, stalled>>

Slots == 0..(BUFFER_SIZE - 1)

\* ------------------------------------------------------------- Node (11-45)
\* Node::empty(): both cursors 0, no successor, every slot null.
NodeEmpty ==
    [enqueue_index |-> 0, dequeue_index |-> 0, next |-> NULL,
     array |-> [i \in Slots |-> NULL], retired |-> 0, freed |-> 0]

\* mutant: the seeded segment without its seed (line 33 left out)
NodeNewUnseeded(data_ptr) ==
    [enqueue_index |-> 1, dequeue_index |-> 0, next |-> NULL,
     array |-> [i \in Slots |-> NULL], retired |-> 0, freed |-> 0]

\* mutant: the seeded segment with enqueue_index 0, as in Node::empty()
NodeNewIndexZero(data_ptr) ==
    [enqueue_index |-> 0, dequeue_index |-> 0, next |-> NULL,
     array |-> [i \in Slots |-> IF i = 0 THEN data_ptr ELSE NULL],
     retired |-> 0, freed |-> 0]

\* Node::new(data_ptr): enqueue_index 1 and slot 0 holding the item.
NodeNew(data_ptr) ==
    [enqueue_index |-> 1, dequeue_index |-> 0, next |-> NULL,
     array |-> [i \in Slots |-> IF i = 0 THEN data_ptr ELSE NULL],
     retired |-> 0, freed |-> 0]

Quiescent == \A t \in Threads : pc[t] = "idle"

\* the segments reachable from s by next links, s first
RECURSIVE ChainFrom(_, _)
ChainFrom(s, n) ==
    IF s = NULL \/ n = 0 THEN <<>>
    ELSE <<s>> \o ChainFrom(segs[s].next, n - 1)

Chain == ChainFrom(head, Len(segs))

Range(f) == {f[i] : i \in DOMAIN f}

\* an access through a pointer into a segment: it is a use after free when the
\* segment has been freed
Touch(s) == uaf' = (uaf \/ segs[s].freed > 0)

\* ------------------------------------------------------------ workloads
\* A workload is a program run against a fresh queue: calls[t] is the
\* sequence of calls thread t makes ("e" an enqueue, "d" a dequeue), warm the
\* number of calls thread 1 makes alone before the other threads start.
Rep(c, n) == [i \in 1..n |-> c]

Workload(w, c1, c2, c3) ==
    [warm |-> w,
     calls |-> [t \in Threads |-> IF t = 1 THEN c1 ELSE IF t = 2 THEN c2
                                  ELSE IF t = 3 THEN c3 ELSE <<>>]]

Workloads ==
    \* one thread: n enqueues, then dequeues until empty
    { Workload(0, Rep("e", n) \o Rep("d", n + 1), <<>>, <<>>) : n \in 0..SeqEnq }
    \cup
    {
      \* two threads starting on the fresh queue
      Workload(0, <<"d", "e", "d">>, <<"e", "d">>, <<>>),
      \* a producer and a consumer racing for the same slots
      Workload(0, Rep("e", BUFFER_SIZE), Rep("d", HoleDeqs), <<>>),
      \* the first segment is used up, then two producers and a consumer
      Workload(2 * BUFFER_SIZE, Rep("e", BUFFER_SIZE) \o Rep("d", BUFFER_SIZE) \o <<"e">>,
               <<"e">>, <<"d", "d">>),
      \* the first segment is used up, then two threads enqueue and drain
      Workload(2 * BUFFER_SIZE, Rep("e", BUFFER_SIZE) \o Rep("d", BUFFER_SIZE) \o <<"e", "d">>,
               <<"e", "d", "d">>, <<>>),
      \* one item, then two consumers racing for it
      Workload(1, <<"e">>, <<"d">>, <<"d">>),
      \* a full segment with a successor, then two consumers draining it
      Workload(BUFFER_SIZE + 1, Rep("e", BUFFER_SIZE + 1), <<"d">>, <<"d", "d">>),
      \* one item in and out, then a consumer, a producer, and a thread that
      \* fills the segment and dequeues
      Workload(2, <<"e", "d", "d">>, <<"e">>, <<"e", "d">>) }

\* FAAAQueue::new() (132-138): one empty segment, head and tail both on it;
\* W are the workloads run against it, S the threads that may be suspended
\* (0 for none; only a thread that makes calls can be suspended in one).
InitWith(W, S) ==
    /\ segs = <<NodeEmpty>>
    /\ head = 1
    /\ tail = 1
    /\ hp = [t \in Threads |-> NULL]
    /\ pc = [t \in Threads |-> "idle"]
    /\ ltail = [t \in Threads |-> NULL]
    /\ idx = [t \in Threads |-> 0]
    /\ lnext = [t \in Threads |-> NULL]
    /\ item = [t \in Threads |-> NULL]
    /\ deqSeen = [t \in Threads |-> 0]
    /\ \E w \in W :
          /\ warm = w.warm
          /\ calls = w.calls
          /\ stalled \in {u \in S : u = 0 \/ w.calls[u] # <<>>}
    /\ dropped = FALSE
    /\ uaf = FALSE
    /\ badDrop = FALSE
    /\ clock = 0
    /\ hist = <<>>
    /\ empties = {}
    /\ opInv = [t \in Threads |-> 0]
    /\ alone = [t \in Threads |-> FALSE]
    /\ lastRet = [t \in Threads |-> NULL]
    /\ actors = {}
    /\ holes = {}

Init == InitWith(Workloads, {0})

\* ------------------------------------------------------------- bookkeeping
\* a step of thread t ends every other dequeue's run of being alone
Acts(t) == alone' = [u \in Threads |-> alone[u] /\ u = t]

Goto(t, l) == pc' = [pc EXCEPT ![t] = l]

NewItem == [eInv |-> clock + 1, eRet |-> 0, dInv |-> 0, dRet |-> 0,
            taken |-> 0, drops |-> 0]

\* thread 1 calls alone while warming up; the others start once thread 1 has
\* returned from its last warm-up call
MayCall(t, c) == calls[t] # <<>> /\ Head(calls[t]) = c /\ (t = 1 \/ warm = 0)
Cooled(t) == IF t = 1 /\ warm > 0 THEN warm - 1 ELSE warm

HoldsItem == \E k \in 1..Len(Chain) : \E i \in Slots : segs[Chain[k]].array[i] > 0

\* --------------------------------------------------------- enqueue (48-96)
\* what the guard protects once enqueue has returned (lines 73, 92:
\* hp.reset_protection())
GuardAfterEnqueue(t) == NULL

\* lines 73-74 and 92-93: hp.reset_protection(); return
EnqReturn(t) ==
    /\ hp' = [hp EXCEPT ![t] = GuardAfterEnqueue(t)]
    /\ hist' = [hist EXCEPT ![item[t]].eRet = clock + 1]
    /\ clock' = clock + 1
    /\ lastRet' = [lastRet EXCEPT ![t] = item[t]]
    /\ ltail' = [ltail EXCEPT ![t] = NULL]
    /\ idx' = [idx EXCEPT ![t] = 0]
    /\ lnext' = [lnext EXCEPT ![t] = NULL]
    /\ item' = [item EXCEPT ![t] = NULL]
    /\ Goto(t, "idle")
    /\ warm' = Cooled(t)
    /\ UNCHANGED <<empties, opInv, actors>>

\* mutant: a plain load that protects nothing
SafeLoadUnprotected(p) == NULL

\* the segment safe_load(hp) protects when it loads the pointer p (lines 51, 99)
SafeLoad(p) == p

\* lines 49-51: the call: the item moves to the heap, then the first
\* ltail = self.tail.safe_load(hp)
EnqueueCall(t) ==
    /\ ~dropped
    /\ pc[t] = "idle"
    /\ MayCall(t, "e")
    /\ calls' = [calls EXCEPT ![t] = Tail(@)]
    /\ item' = [item EXCEPT ![t] = Len(hist) + 1]
    /\ hist' = Append(hist, NewItem)
    /\ clock' = clock + 1
    /\ opInv' = [opInv EXCEPT ![t] = clock + 1]
    /\ actors' = actors \cup {t}
    /\ ltail' = [ltail EXCEPT ![t] = tail]
    /\ hp' = [hp EXCEPT ![t] = SafeLoad(tail)]
    /\ Touch(tail)
    /\ Goto(t, "E52")
    /\ Acts(t)
    /\ UNCHANGED <<fixed, segs, head, tail, idx, lnext, deqSeen, dropped, badDrop, warm,
                   empties, lastRet>>

\* line 51 after a continue: ltail = self.tail.safe_load(hp): load and protect
EnqLoadTail(t) ==
    /\ pc[t] = "E51"
    /\ ltail' = [ltail EXCEPT ![t] = tail]
    /\ hp' = [hp EXCEPT ![t] = SafeLoad(tail)]
    /\ Touch(tail)
    /\ Goto(t, "E52")
    /\ Acts(t)
    /\ UNCHANGED <<fixed, segs, head, tail, idx, lnext, item, deqSeen, budget, warm, dropped,
                   badDrop, history>>

\* line 53: the segment is full for this index
IsFull(i) == i > BUFFER_SIZE - 1

\* lines 52-53: idx = ltail.enqueue_index.fetch_add(1)
EnqFetchAdd(t) ==
    /\ pc[t] = "E52"
    /\ idx' = [idx EXCEPT ![t] = segs[ltail[t]].enqueue_index]
    /\ segs' = [segs EXCEPT ![ltail[t]].enqueue_index = @ + 1]
    /\ Touch(ltail[t])
    /\ Goto(t, IF IsFull(segs[ltail[t]].enqueue_index) THEN "E55" ELSE "E88")
    /\ Acts(t)
    /\ UNCHANGED <<fixed, head, tail, hp, ltail, lnext, item, deqSeen, budget, warm, dropped,
                   badDrop, history>>

\* lines 55-57: the tail has moved meanwhile: continue
EnqRecheckTail(t) ==
    /\ pc[t] = "E55"
    /\ idx' = [idx EXCEPT ![t] = 0]
    /\ Goto(t, IF ltail[t] # tail THEN "E51" ELSE "E58")
    /\ Acts(t)
    /\ UNCHANGED <<fixed, segs, head, tail, hp, ltail, lnext, item, deqSeen, budget, warm,
                   dropped, uaf, badDrop, history>>

\* lines 58-62: lnext = ltail.next.load_ptr(); when null a seeded segment is
\* allocated (new_node, kept in lnext)
EnqLoadNext(t) ==
    /\ pc[t] = "E58"
    /\ Touch(ltail[t])
    /\ IF segs[ltail[t]].next = NULL
       THEN /\ segs' = Append(segs, NodeNew(item[t]))
            /\ lnext' = [lnext EXCEPT ![t] = Len(segs) + 1]
            /\ Goto(t, "E63")
       ELSE /\ segs' = segs
            /\ lnext' = [lnext EXCEPT ![t] = segs[ltail[t]].next]
            /\ Goto(t, "E80")
    /\ Acts(t)
    /\ UNCHANGED <<fixed, head, tail, hp, ltail, idx, item, deqSeen, budget, warm, dropped,
                   badDrop, history>>

\* mutant: the producer that lost the link race frees its shell and returns
\* as if the item were in the queue
LinkLostGiveUp(t) ==
    /\ segs' = [segs EXCEPT ![lnext[t]].freed = @ + 1]
    /\ EnqReturn(t)

\* lines 76-78, 85: the producer that lost the link race frees its segment
\* shell (not the item) and continues
LinkLost(t) ==
    /\ segs' = [segs EXCEPT ![lnext[t]].freed = @ + 1]
    /\ lnext' = [lnext EXCEPT ![t] = NULL]
    /\ Goto(t, "E51")
    /\ UNCHANGED <<hp, ltail, idx, item, history, warm>>

\* mutant: the link is stored whatever ltail.next holds
EnqLinkNextStore(t) ==
    /\ pc[t] = "E63"
    /\ Touch(ltail[t])
    /\ segs' = [segs EXCEPT ![ltail[t]].next = lnext[t]]
    /\ Goto(t, "E70")
    /\ Acts(t)
    /\ UNCHANGED <<fixed, head, tail, deqSeen, budget, dropped, badDrop,
                   hp, ltail, idx, lnext, item, history, warm>>

\* lines 63-68: ltail.next.compare_exchange_ptr(null, new_node)
EnqLinkNext(t) ==
    /\ pc[t] = "E63"
    /\ Touch(ltail[t])
    /\ IF segs[ltail[t]].next = NULL
       THEN /\ segs' = [segs EXCEPT ![ltail[t]].next = lnext[t]]
            /\ Goto(t, "E70")
            /\ UNCHANGED <<hp, ltail, idx, lnext, item, history, warm>>
       ELSE LinkLost(t)
    /\ Acts(t)
    /\ UNCHANGED <<fixed, head, tail, deqSeen, budget, dropped, badDrop>>

\* lines 69-74: self.tail.compare_exchange_ptr(ltail, new_node), result
\* ignored; hp.reset_protection(); return
EnqSwingTail(t) ==
    /\ pc[t] = "E70"
    /\ tail' = IF tail = ltail[t] THEN lnext[t] ELSE tail
    /\ EnqReturn(t)
    /\ Acts(t)
    /\ UNCHANGED <<fixed, segs, head, deqSeen, budget, dropped, uaf, badDrop>>

\* lines 80-85: help: self.tail.compare_exchange_ptr(ltail, lnext); continue
EnqHelpTail(t) ==
    /\ pc[t] = "E80"
    /\ tail' = IF tail = ltail[t] THEN lnext[t] ELSE tail
    /\ lnext' = [lnext EXCEPT ![t] = NULL]
    /\ Goto(t, "E51")
    /\ Acts(t)
    /\ UNCHANGED <<fixed, segs, head, hp, ltail, idx, item, deqSeen, budget, warm,
                   dropped, uaf, badDrop, history>>

\* mutant: after a failed slot CAS the same CAS is tried again
RetryAfterCasSame == "E88"

\* lines 94-95: after a failed slot CAS the loop starts over at line 51
RetryAfterCas == "E51"

\* mutant: the item is stored into the slot whatever the slot holds
EnqStoreSlot(t) ==
    /\ pc[t] = "E88"
    /\ Touch(ltail[t])
    /\ segs' = [segs EXCEPT ![ltail[t]].array[idx[t]] = item[t]]
    /\ EnqReturn(t)
    /\ Acts(t)
    /\ UNCHANGED <<fixed, head, tail, deqSeen, budget, dropped, badDrop>>

\* lines 87-94: ltail.array[idx].compare_exchange(null, item_ptr); on success
\* hp.reset_protection(); return, otherwise the loop starts over
EnqCasSlot(t) ==
    /\ pc[t] = "E88"
    /\ Touch(ltail[t])
    /\ IF segs[ltail[t]].array[idx[t]] = NULL
       THEN /\ segs' = [segs EXCEPT ![ltail[t]].array[idx[t]] = item[t]]
            /\ EnqReturn(t)
       ELSE /\ segs' = segs
            /\ idx' = [idx EXCEPT ![t] = IF RetryAfterCas = "E51" THEN 0 ELSE @]
            /\ Goto(t, RetryAfterCas)
            /\ UNCHANGED <<hp, ltail, lnext, item, history, warm>>
    /\ Acts(t)
    /\ UNCHANGED <<fixed, head, tail, deqSeen, budget, dropped, badDrop>>

\* -------------------------------------------------------- dequeue (97-131)
\* lines 129-130: hp.reset_protection(); None
DeqReturnNone(t) ==
    /\ hp' = [hp EXCEPT ![t] = NULL]
    /\ empties' = empties \cup {[inv |-> opInv[t], ret |-> clock + 1,
                                alone |-> alone[t]]}
    /\ clock' = clock + 1
    /\ lastRet' = [lastRet EXCEPT ![t] = NONE]
    /\ ltail' = [ltail EXCEPT ![t] = NULL]
    /\ idx' = [idx EXCEPT ![t] = 0]
    /\ lnext' = [lnext EXCEPT ![t] = NULL]
    /\ Goto(t, "idle")
    /\ warm' = Cooled(t)
    /\ UNCHANGED <<hist, opInv, actors>>

\* mutant: the first load of dequeue reads self.tail for self.head
DequeueCallTail(t) ==
    /\ ~dropped
    /\ pc[t] = "idle"
    /\ MayCall(t, "d")
    /\ calls' = [calls EXCEPT ![t] = Tail(@)]
    /\ clock' = clock + 1
    /\ opInv' = [opInv EXCEPT ![t] = clock + 1]
    /\ actors' = actors \cup {t}
    /\ alone' = [u \in Threads |-> u = t /\ Quiescent /\ HoldsItem]
    /\ ltail' = [ltail EXCEPT ![t] = tail]
    /\ hp' = [hp EXCEPT ![t] = SafeLoad(tail)]
    /\ Touch(tail)
    /\ Goto(t, "D100")
    /\ UNCHANGED <<fixed, segs, head, tail, idx, lnext, item, deqSeen, warm,
                   dropped, badDrop, hist, empties, lastRet>>

\* lines 97-99: the call and the first lhead = self.head.safe_load(hp)
DequeueCall(t) ==
    /\ ~dropped
    /\ pc[t] = "idle"
    /\ MayCall(t, "d")
    /\ calls' = [calls EXCEPT ![t] = Tail(@)]
    /\ clock' = clock + 1
    /\ opInv' = [opInv EXCEPT ![t] = clock + 1]
    /\ actors' = actors \cup {t}
    /\ alone' = [u \in Threads |-> u = t /\ Quiescent /\ HoldsItem]
    /\ ltail' = [ltail EXCEPT ![t] = head]
    /\ hp' = [hp EXCEPT ![t] = SafeLoad(head)]
    /\ Touch(head)
    /\ Goto(t, "D100")
    /\ UNCHANGED <<fixed, segs, head, tail, idx, lnext, item, deqSeen, warm,
                   dropped, badDrop, hist, empties, lastRet>>

\* line 99 after a continue: lhead = self.head.safe_load(hp)
DeqLoadHead(t) ==
    /\ pc[t] = "D99"
    /\ ltail' = [ltail EXCEPT ![t] = head]
    /\ hp' = [hp EXCEPT ![t] = SafeLoad(head)]
    /\ Touch(head)
    /\ Goto(t, "D100")
    /\ Acts(t)
    /\ UNCHANGED <<fixed, segs, head, tail, idx, lnext, item, deqSeen, budget, warm, dropped,
                   badDrop, history>>

\* line 100, left operand: lhead.dequeue_index.load()
DeqLoadDeqIndex(t) ==
    /\ pc[t] = "D100"
    /\ deqSeen' = [deqSeen EXCEPT ![t] = segs[ltail[t]].dequeue_index]
    /\ Touch(ltail[t])
    /\ Goto(t, "D100e")
    /\ Acts(t)
    /\ UNCHANGED <<fixed, segs, head, tail, hp, ltail, idx, lnext, item, budget, warm, dropped,
                   badDrop, history>>

\* mutant: the emptiness test one index early
DeqEmptyTestEarly(dq, enq) == dq + 1 >= enq

\* mutant: the emptiness test with > for >=
DeqEmptyTestStrict(dq, enq) == dq > enq

\* line 100, the comparison
DeqEmptyTest(dq, enq) == dq >= enq

\* line 100, right operand: >= lhead.enqueue_index.load()
DeqLoadEnqIndex(t) ==
    /\ pc[t] = "D100e"
    /\ Touch(ltail[t])
    /\ Goto(t, IF DeqEmptyTest(deqSeen[t], segs[ltail[t]].enqueue_index)
               THEN "D101" ELSE "D105")
    /\ Acts(t)
    /\ UNCHANGED <<fixed, segs, head, tail, hp, ltail, idx, lnext, item, deqSeen, budget, warm,
                   dropped, badDrop, history>>

\* lines 101-104, 129-130: && lhead.next.load_ptr().is_null() => break, and
\* the loop's exit: hp.reset_protection(); None
DeqCheckNext(t) ==
    /\ pc[t] = "D101"
    /\ Touch(ltail[t])
    /\ IF segs[ltail[t]].next = NULL
       THEN DeqReturnNone(t)
       ELSE /\ Goto(t, "D105")
            /\ UNCHANGED <<hp, ltail, idx, lnext, history, warm>>
    /\ deqSeen' = [deqSeen EXCEPT ![t] = IF segs[ltail[t]].next = NULL THEN 0 ELSE @]
    /\ Acts(t)
    /\ UNCHANGED <<fixed, segs, head, tail, item, budget, dropped, badDrop>>

\* mutant: the consumer takes the segment for drained one index early
DeqFetchAddEarly(t) ==
    /\ pc[t] = "D105"
    /\ idx' = [idx EXCEPT ![t] = segs[ltail[t]].dequeue_index]
    /\ segs' = [segs EXCEPT ![ltail[t]].dequeue_index = @ + 1]
    /\ Touch(ltail[t])
    /\ Goto(t, IF IsFull(segs[ltail[t]].dequeue_index + 1) THEN "D108" ELSE "D122")
    /\ deqSeen' = [deqSeen EXCEPT ![t] = 0]
    /\ Acts(t)
    /\ UNCHANGED <<fixed, head, tail, hp, ltail, lnext, item, budget, warm, dropped,
                   badDrop, history>>

\* lines 105-106: idx = lhead.dequeue_index.fetch_add(1)
DeqFetchAdd(t) ==
    /\ pc[t] = "D105"
    /\ idx' = [idx EXCEPT ![t] = segs[ltail[t]].dequeue_index]
    /\ segs' = [segs EXCEPT ![ltail[t]].dequeue_index = @ + 1]
    /\ Touch(ltail[t])
    /\ Goto(t, IF IsFull(segs[ltail[t]].dequeue_index) THEN "D108" ELSE "D122")
    /\ deqSeen' = [deqSeen EXCEPT ![t] = 0]
    /\ Acts(t)
    /\ UNCHANGED <<fixed, head, tail, hp, ltail, lnext, item, budget, warm, dropped,
                   badDrop, history>>

\* lines 108-111, 129-130: lnext = lhead.next.load_ptr(); null => break, and
\* the loop's exit: hp.reset_protection(); None
DeqLoadNext(t) ==
    /\ pc[t] = "D108"
    /\ Touch(ltail[t])
    /\ IF segs[ltail[t]].next = NULL
       THEN DeqReturnNone(t)
       ELSE /\ lnext' = [lnext EXCEPT ![t] = segs[ltail[t]].next]
            /\ idx' = [idx EXCEPT ![t] = 0]
            /\ Goto(t, "D112")
            /\ UNCHANGED <<hp, ltail, history, warm>>
    /\ Acts(t)
    /\ UNCHANGED <<fixed, segs, head, tail, item, deqSeen, budget, dropped, badDrop>>

\* mutant: the old head is retired whether or not the head CAS succeeded
DeqAdvanceHeadRetire(t) ==
    /\ pc[t] = "D112"
    /\ head' = IF head = ltail[t] THEN lnext[t] ELSE head
    /\ segs' = [segs EXCEPT ![ltail[t]].retired = @ + 1]
    /\ lnext' = [lnext EXCEPT ![t] = NULL]
    /\ Goto(t, "D99")
    /\ Acts(t)
    /\ UNCHANGED <<fixed, tail, hp, ltail, idx, item, deqSeen, budget, warm, dropped, uaf, badDrop,
                   history>>

\* lines 112-120: self.head.compare_exchange_ptr(lhead, lnext); the winner
\* retires the old head; continue
DeqAdvanceHead(t) ==
    /\ pc[t] = "D112"
    /\ IF head = ltail[t]
       THEN /\ head' = lnext[t]
            /\ segs' = [segs EXCEPT ![ltail[t]].retired = @ + 1]
       ELSE /\ head' = head
            /\ segs' = segs
    /\ lnext' = [lnext EXCEPT ![t] = NULL]
    /\ Goto(t, "D99")
    /\ Acts(t)
    /\ UNCHANGED <<fixed, tail, hp, ltail, idx, item, deqSeen, budget, warm, dropped, uaf, badDrop,
                   history>>

\* what the guard protects once dequeue has returned Some(item) (lines
\* 126-127: this path has no reset_protection)
GuardAfterSome(t) == hp[t]

\* mutant: the consumer waits for the producer of its slot to publish
DeqWaitSlot(t) ==
    /\ pc[t] = "D122"
    /\ segs[ltail[t]].array[idx[t]] # NULL
    /\ segs' = [segs EXCEPT ![ltail[t]].array[idx[t]] = TAKEN]
    /\ LET old == segs[ltail[t]].array[idx[t]] IN
       IF old = NULL
       THEN /\ Goto(t, "D99")
            /\ warm' = warm
            /\ holes' = holes \cup {<<ltail[t], idx[t]>>}
            /\ Touch(ltail[t])
            /\ idx' = [idx EXCEPT ![t] = 0]
            /\ UNCHANGED <<hp, ltail, history>>
       ELSE /\ Goto(t, "idle")
            /\ warm' = Cooled(t)
            /\ holes' = holes
            /\ uaf' = (uaf \/ segs[ltail[t]].freed > 0 \/ old = TAKEN)
            /\ hp' = [hp EXCEPT ![t] = GuardAfterSome(t)]
            /\ ltail' = [ltail EXCEPT ![t] = NULL]
            /\ idx' = [idx EXCEPT ![t] = 0]
            /\ clock' = clock + 1
            /\ lastRet' = [lastRet EXCEPT ![t] = old]
            /\ hist' = IF old = TAKEN THEN hist
                       ELSE [hist EXCEPT ![old].dInv = opInv[t],
                                         ![old].dRet = clock + 1,
                                         ![old].taken = @ + 1]
            /\ UNCHANGED <<empties, opInv, actors>>
    /\ Acts(t)
    /\ UNCHANGED <<stalled, head, tail, lnext, item, deqSeen, budget, dropped, badDrop>>

\* lines 122-127: item_ptr = lhead.array[idx].swap(Taken); null => continue,
\* otherwise return Some(item)
DeqSwapSlot(t) ==
    /\ pc[t] = "D122"
    /\ segs' = [segs EXCEPT ![ltail[t]].array[idx[t]] = TAKEN]
    /\ LET old == segs[ltail[t]].array[idx[t]] IN
       IF old = NULL
       THEN /\ Goto(t, "D99")
            /\ warm' = warm
            /\ holes' = holes \cup {<<ltail[t], idx[t]>>}
            /\ Touch(ltail[t])
            /\ idx' = [idx EXCEPT ![t] = 0]
            /\ UNCHANGED <<hp, ltail, history>>
       ELSE /\ Goto(t, "idle")
            /\ warm' = Cooled(t)
            /\ holes' = holes
            /\ uaf' = (uaf \/ segs[ltail[t]].freed > 0 \/ old = TAKEN)
            /\ hp' = [hp EXCEPT ![t] = GuardAfterSome(t)]
            /\ ltail' = [ltail EXCEPT ![t] = NULL]
            /\ idx' = [idx EXCEPT ![t] = 0]
            /\ clock' = clock + 1
            /\ lastRet' = [lastRet EXCEPT ![t] = old]
            /\ hist' = IF old = TAKEN THEN hist
                       ELSE [hist EXCEPT ![old].dInv = opInv[t],
                                         ![old].dRet = clock + 1,
                                         ![old].taken = @ + 1]
            /\ UNCHANGED <<empties, opInv, actors>>
    /\ Acts(t)
    /\ UNCHANGED <<stalled, head, tail, lnext, item, deqSeen, budget, dropped, badDrop>>

\* ------------------------------------------------- reclamation and teardown
\* the reclamation domain frees a retired segment at a moment when no guard
\* protects it
Reclaim(s) ==
    /\ segs[s].retired > 0
    /\ segs[s].freed = 0
    /\ \A t \in Threads : hp[t] # s
    /\ segs' = [segs EXCEPT ![s].freed = @ + 1]
    /\ UNCHANGED <<fixed, head, tail, hp, pc, locals, budget, warm, dropped, uaf, badDrop,
                   history, alone>>

\* mutant: the scan stops before the last segment
DropScannedShort == {Chain[k] : k \in 2..(Len(Chain) - 1)}

\* mutant: the scan starts at the head segment
DropScannedAll == Range(Chain)

\* the segments Drop scans for items: those after the head segment (150-162)
DropScanned == Range(Tail(Chain))

\* Drop for FAAAQueue (147-164): frees the head segment and every segment
\* linked after it; drops what the slots of the latter hold
Drop ==
    /\ ~dropped
    /\ Quiescent
    /\ dropped' = TRUE
    /\ segs' = [s \in DOMAIN segs |->
                  IF s \in Range(Chain) THEN [segs[s] EXCEPT !.freed = @ + 1]
                  ELSE segs[s]]
    /\ hist' = [i \in DOMAIN hist |->
                  [hist[i] EXCEPT !.drops =
                      @ + Cardinality({<<s, k>> \in DropScanned \X Slots :
                                          segs[s].array[k] = i})]]
    /\ badDrop' = \E s \in DropScanned : \E k \in Slots : segs[s].array[k] = TAKEN
    /\ uaf' = (uaf \/ \E s \in Range(Chain) : segs[s].freed > 0)
    /\ UNCHANGED <<fixed, head, tail, hp, pc, locals, budget, warm, clock, empties, opInv,
                   lastRet, actors, alone>>

Next ==
    \/ \E t \in Threads : EnqueueCall(t)
    \/ \E t \in Threads : EnqLoadTail(t)
    \/ \E t \in Threads : EnqFetchAdd(t)
    \/ \E t \in Threads : EnqRecheckTail(t)
    \/ \E t \in Threads : EnqLoadNext(t)
    \/ \E t \in Threads : EnqLinkNext(t)
    \/ \E t \in Threads : EnqSwingTail(t)
    \/ \E t \in Threads : EnqHelpTail(t)
    \/ \E t \in Threads : EnqCasSlot(t)
    \/ \E t \in Threads : DequeueCall(t)
    \/ \E t \in Threads : DeqLoadHead(t)
    \/ \E t \in Threads : DeqLoadDeqIndex(t)
    \/ \E t \in Threads : DeqLoadEnqIndex(t)
    \/ \E t \in Threads : DeqCheckNext(t)
    \/ \E t \in Threads : DeqFetchAdd(t)
    \/ \E t \in Threads : DeqLoadNext(t)
    \/ \E t \in Threads : DeqAdvanceHead(t)
    \/ \E t \in Threads : DeqSwapSlot(t)
    \/ \E s \in DOMAIN segs : Reclaim(s)
    \/ Drop

Spec == Init /\ [][Next]_vars

\* ------------------------------------------------------------- fairness
\* a step of thread t inside enqueue or dequeue
Running(t) ==
    \/ EnqLoadTail(t) \/ EnqFetchAdd(t) \/ EnqRecheckTail(t) \/ EnqLoadNext(t)
    \/ EnqLinkNext(t) \/ EnqSwingTail(t) \/ EnqHelpTail(t) \/ EnqCasSlot(t)
    \/ DeqLoadHead(t) \/ DeqLoadDeqIndex(t) \/ DeqLoadEnqIndex(t)
    \/ DeqCheckNext(t) \/ DeqFetchAdd(t) \/ DeqLoadNext(t)
    \/ DeqAdvanceHead(t) \/ DeqSwapSlot(t)

\* the workloads of the fair specification
LiveWorkloads ==
    { \* a producer and a consumer racing for every slot of a segment
      Workload(0, <<"e">>, Rep("d", BUFFER_SIZE + 1), <<>>),
      \* the first segment is used up, then two producers and a consumer
      Workload(2 * BUFFER_SIZE, Rep("e", BUFFER_SIZE) \o Rep("d", BUFFER_SIZE) \o <<"e">>,
               <<"e">>, <<"d">>),
      \* the first segment is used up, then a producer and two consumers
      Workload(2 * BUFFER_SIZE, Rep("e", BUFFER_SIZE) \o Rep("d", BUFFER_SIZE) \o <<"e">>,
               <<"d">>, <<"d">>) }

LiveInit == InitWith(LiveWorkloads, 0..NThreads)

\* every thread inside an operation keeps taking steps, except the thread
\* `stalled`, which may stop anywhere for good
LiveSpec ==
    /\ LiveInit
    /\ [][Next]_vars
    /\ \A t \in Threads : WF_vars(stalled # t /\ Running(t))

\* ================================================================ claims
Items == DOMAIN hist
EnqDone(a) == hist[a].eRet # 0
Returned(a) == hist[a].dRet # 0
DeqPcs == {"D99", "D100", "D100e", "D101", "D105", "D108", "D112", "D122"}
EnqPcs == {"E51", "E52", "E55", "E58", "E63", "E70", "E80", "E88"}

\* some dequeue still in progress was called at or before event k
MayStillTake(k) == \E t \in Threads : pc[t] \in DeqPcs /\ opInv[t] <= k

\* no item is handed out twice
NoRepeat == \A a \in Items : hist[a].taken <= 1

\* when enqueue(a) returned before enqueue(b) was called and b has been
\* dequeued, the dequeue of a was not called after the dequeue of b returned
FifoOrder ==
    \A a, b \in Items :
        (EnqDone(a) /\ hist[a].eRet < hist[b].eInv /\ Returned(b))
        => IF Returned(a) THEN hist[a].dInv < hist[b].dRet
           ELSE MayStillTake(hist[b].dRet)

\* the queue can have been empty right after event k: every item whose
\* enqueue had returned by then is taken by a dequeue called by then
EmptyAt(k) ==
    \A a \in Items :
        (EnqDone(a) /\ hist[a].eRet <= k)
        => IF Returned(a) THEN hist[a].dInv <= k ELSE MayStillTake(k)

EmptyJustified == \A e \in empties : \E k \in e.inv..(e.ret - 1) : EmptyAt(k)

\* C1: every history of enqueue and dequeue calls is linearizable to a FIFO
\* queue: no item is returned twice, items come out in the order of their
\* (non-overlapping) enqueues, and a dequeue returns empty only if the queue
\* can have been empty at some point during the call.
C1_Linearizable == NoRepeat /\ FifoOrder /\ EmptyJustified

\* C1 witness: two enqueues that overlapped in time have both been dequeued,
\* and a dequeue that overlapped an enqueue has returned empty.
C1_Witness ==
    /\ \E a, b \in Items :
          /\ a < b /\ Returned(a) /\ Returned(b)
          /\ (hist[a].eRet = 0 \/ hist[a].eRet > hist[b].eInv)
    /\ \E e \in empties : \E a \in Items :
          hist[a].eInv < e.ret /\ (hist[a].eRet = 0 \/ hist[a].eRet > e.inv)

\* the single-thread history so far is: enqueues first, then dequeues
EnqThenDeq ==
    /\ Cardinality(actors) <= 1
    /\ \A a, b \in Items : Returned(a) => hist[b].eRet # 0 /\ hist[b].eRet < hist[a].dInv
    /\ \A e \in empties : \A b \in Items : hist[b].eRet # 0 /\ hist[b].eRet < e.inv
    /\ \A t \in Threads : pc[t] \in DeqPcs => \A b \in Items : EnqDone(b)

\* C2: one thread that enqueues N items and then dequeues gets the items
\* back in enqueue order: item k is returned by the k-th dequeue, and no
\* dequeue returns empty before all N items are out (every N up to SeqEnq,
\* which crosses two segment boundaries).
C2_SequentialOrder ==
    EnqThenDeq =>
        /\ \A a \in Items : Returned(a) =>
              \A b \in Items : b < a => Returned(b) /\ hist[b].dRet < hist[a].dInv
        /\ \A e \in empties : \A a \in Items : Returned(a) /\ hist[a].dRet < e.inv
        /\ \A a \in Items : hist[a].taken <= 1

\* C2 witness: 2 * BUFFER_SIZE + 1 items went in, through two chain
\* extensions, and all came out.
C2_Witness ==
    /\ EnqThenDeq
    /\ Len(hist) = 2 * BUFFER_SIZE + 1
    /\ Len(segs) = 3
    /\ \A a \in Items : Returned(a)

\* some dequeue that returned empty was called after every enqueue returned
DrainedToEmpty ==
    \E e \in empties : \A a \in Items : EnqDone(a) /\ hist[a].eRet < e.inv

\* C3: no item is returned by two dequeues, only enqueued items are
\* returned, and when nothing is in progress and a dequeue called after the
\* last enqueue returned has reported empty, every enqueued item has been
\* returned.
C3_Conservation ==
    /\ NoRepeat
    /\ \A t \in Threads : lastRet[t] > 0 => lastRet[t] \in Items
    /\ (Quiescent /\ DrainedToEmpty) => \A a \in Items : Returned(a)

\* C3 witness: a producer lost the race to link a segment (its shell was
\* freed), and afterwards the queue was drained to empty.
C3_Witness ==
    /\ Quiescent /\ DrainedToEmpty
    /\ Len(hist) > BUFFER_SIZE
    /\ \E s \in DOMAIN segs : segs[s].freed > 0 /\ segs[s].retired = 0 /\ ~dropped

\* C4: as long as no enqueue has started, dequeue never gets past the
\* emptiness test of its first iteration and returns empty, and the queue is
\* as constructed: one segment with both cursors 0 and no slot Taken, head
\* and tail on it.
C4_FreshDequeue ==
    (hist = <<>> /\ ~dropped) =>
        /\ segs = <<NodeEmpty>>
        /\ head = 1 /\ tail = 1
        /\ \A t \in Threads : pc[t] \in {"idle", "D100", "D100e", "D101"}
        /\ \A t \in Threads : lastRet[t] \in {NULL, NONE}

\* C4 witness: a dequeue on the fresh queue has returned empty.
C4_Witness == hist = <<>> /\ ~dropped /\ \E t \in Threads : lastRet[t] = NONE

\* every segment ever linked into the queue, the first one first
Linked == Range(ChainFrom(1, Len(segs)))

\* an item whose enqueue has returned sits in exactly one slot of a linked
\* segment until a dequeue takes it
InstalledOnce ==
    \A a \in Items :
        EnqDone(a) =>
            Cardinality({<<s, k>> \in Linked \X Slots : segs[s].array[k] = a})
                + hist[a].taken = 1

\* C5: every enqueue call of a fairly scheduled thread returns (the other
\* threads make finitely many calls), and when it has returned its item is
\* installed in exactly one slot (a slot of the tail segment or slot 0 of a
\* segment the call linked) until a dequeue takes it.
C5_EnqueueCompletes ==
    /\ []InstalledOnce
    /\ \A t \in Threads : (stalled # t /\ pc[t] \in EnqPcs) ~> (pc[t] = "idle")

\* C5 witness: with every thread fair, an enqueue that found the tail segment
\* full and lost the race to link has returned with its item in a segment
\* that another producer linked.
C5_Witness ==
    /\ stalled = 0
    /\ \E s \in DOMAIN segs : segs[s].freed > 0 /\ segs[s].retired = 0 /\ ~dropped
    /\ \E a \in Items : \E s \in Linked :
          EnqDone(a) /\ s # 1 /\ segs[s].array[1] = a

\* C6: no access goes to a freed segment, and neither head nor tail points to
\* a freed segment while the queue lives.
C6_NoUseAfterFree ==
    /\ ~uaf
    /\ ~dropped => segs[head].freed = 0 /\ segs[tail].freed = 0

\* C6 witness: the domain has freed a retired segment while an operation is
\* in progress.
C6_Witness ==
    /\ ~dropped
    /\ \E s \in DOMAIN segs : segs[s].retired > 0 /\ segs[s].freed > 0
    /\ \E t \in Threads : pc[t] # "idle"

\* C7: after every return from enqueue and dequeue the caller's guard
\* protects no segment.
C7_GuardReleased == \A t \in Threads : pc[t] = "idle" => hp[t] = NULL

\* the items Occupied in a segment after the head segment
AfterHead == {segs[s].array[k] : <<s, k>> \in Range(Tail(Chain)) \X Slots} \ {NULL, TAKEN}

\* C8: destroying the queue drops exactly once every item still Occupied in a
\* segment after the head segment, drops nothing else, and frees every
\* segment reachable from head exactly once.
C8_Teardown ==
    dropped =>
        /\ \A a \in Items : hist[a].drops = IF a \in AfterHead THEN 1 ELSE 0
        /\ \A s \in Range(Chain) : segs[s].freed = 1
        /\ ~badDrop

\* C8 witness: the queue was destroyed with an item left in a segment after
\* the head segment.
C8_Witness == dropped /\ AfterHead # {} /\ Len(Chain) > 2

\* C9: whatever point of enqueue or dequeue one thread is suspended at for
\* good, every operation of every other, fairly scheduled thread returns.
C9_StallFree ==
    \A t \in Threads : (stalled # t /\ pc[t] # "idle") ~> (pc[t] = "idle")

\* C9 witness: the suspended thread has linked a segment and not advanced
\* the tail, and another producer has advanced the tail for it and returned.
C9_Witness ==
    \E u \in Threads :
        /\ stalled = u /\ pc[u] = "E70" /\ tail = lnext[u]
        /\ \E t \in Threads \ {u} : pc[t] = "idle" /\ lastRet[t] > 0 /\ ltail[t] = NULL
                                      /\ hist[lastRet[t]].eRet > hist[item[u]].eInv
                                      /\ hist[lastRet[t]].eInv > opInv[u]

\* C10: a dequeue that starts when nothing is in progress and an item is
\* Occupied in the chain from head, and that runs undisturbed, does not
\* return empty.
C10_HoleTolerance == \A e \in empties : ~e.alone

\* C10 witness: such a dequeue returned an item that lay behind a hole of the
\* head segment.
C10_Witness ==
    \E t \in Threads :
        /\ pc[t] = "idle" /\ alone[t] /\ lastRet[t] > 0
        /\ \E h \in holes : h[1] = head

\* the slots of the segments allocated so far
AllSlots == (DOMAIN segs) \X Slots

\* a producer at its slot CAS, for slot k of segment s with item a
Publishing(s, k, a) ==
    \E t \in Threads : pc[t] = "E88" /\ ltail[t] = s /\ idx[t] = k /\ item[t] = a

\* a consumer at its swap, for slot k of segment s
Swapping(s, k) ==
    {t \in Threads : pc[t] = "D122" /\ ltail[t] = s /\ idx[t] = k}

\* what one step may do to the slots: Empty -> Occupied by the producer that
\* reserved the index, Empty or Occupied -> Taken by the consumer that
\* reserved it; a segment is born with slot 0 Occupied at most
SlotSteps ==
    /\ \A <<s, k>> \in AllSlots :
          LET old == segs[s].array[k]
              new == segs'[s].array[k]
          IN  \/ new = old
              \/ old = NULL /\ new > 0 /\ Publishing(s, k, new)
              \/ old # TAKEN /\ new = TAKEN /\ Swapping(s, k) # {}
    /\ \A s \in DOMAIN segs' \ DOMAIN segs : \A k \in Slots :
          \/ segs'[s].array[k] = NULL
          \/ k = 0 /\ segs'[s].array[k] > 0

\* a slot has at most one consumer about to swap it, and that slot is not
\* Taken yet
OneSwap ==
    \A <<s, k>> \in AllSlots :
        /\ Cardinality(Swapping(s, k)) <= 1
        /\ Swapping(s, k) # {} => segs[s].array[k] # TAKEN

\* C11: a slot changes only Empty -> Occupied (by the producer's CAS, or at
\* birth for slot 0 of a seeded segment), Occupied -> Taken or Empty -> Taken
\* (by a consumer's swap); a Taken slot never changes again, and no slot is
\* swapped by two dequeues.
C11_SlotLifecycle == [][SlotSteps]_vars /\ []OneSwap

\* C11 witness: of one segment, one slot went Empty -> Taken (a hole) and
\* another went Empty -> Occupied -> Taken (its item has been returned).
C11_Witness ==
    \E h \in holes : \E a \in Items : \E k \in Slots :
        /\ Returned(a) /\ k # h[2]
        /\ segs[h[1]].array[k] = TAKEN /\ segs[h[1]].array[h[2]] = TAKEN
        /\ <<h[1], k>> \notin holes

\* C12: the tail segment is reachable from the head segment by next links
\* (head never overtakes tail).
C12_TailReachable == tail \in Range(Chain)

\* C15: a retired segment is pointed to by neither head nor tail, so no
\* operation that starts after the retirement can load it.
C15_RetiredUnreachable ==
    \A s \in DOMAIN segs : segs[s].retired > 0 => head # s /\ tail # s

\* the segments head has been advanced past (each was retired by the dequeue
\* whose head CAS succeeded)
Passed == {s \in DOMAIN segs : segs[s].retired > 0}

\* C13 as stated: head is advanced past a segment only when every slot index
\* of it has been claimed by a dequeue, and from that moment on no slot of the
\* segment is Occupied.
C13_DrainedWhenPassed ==
    \A s \in Passed :
        /\ segs[s].dequeue_index >= BUFFER_SIZE
        /\ \A k \in Slots : segs[s].array[k] <= 0

\* C13 amended: head is advanced past a segment only when every slot index
\* of it has been claimed by a dequeue; a slot of such a segment that is not
\* Taken yet (Occupied, or Empty and possibly Occupied later) is the slot of a
\* dequeue that has claimed its index, has not swapped yet and protects the
\* segment with its guard.
C13_ClaimedWhenPassed ==
    \A s \in Passed :
        /\ segs[s].dequeue_index >= BUFFER_SIZE
        /\ \A k \in Slots :
              segs[s].array[k] # TAKEN
              => \E t \in Swapping(s, k) : hp[t] = s /\ segs[s].freed = 0

\* C13 witness: head has been advanced past a segment in which a slot is still
\* Occupied; the dequeue that claimed the slot has not swapped it yet.
C13_Witness ==
    \E s \in Passed : \E k \in Slots : segs[s].array[k] > 0 /\ Swapping(s, k) # {}

\* what one step may do to head, tail and the next links: head and tail move
\* to the successor of the segment they leave, a next link that is set stays
PointerSteps ==
    /\ head' # head => head' # NULL /\ head' = segs[head].next
    /\ tail' # tail => tail' # NULL /\ tail' = segs[tail].next
    /\ \A s \in DOMAIN segs : segs[s].next # NULL => segs'[s].next = segs[s].next

\* a next link leads to a segment allocated later, so following links never
\* comes back to a segment
LinksForward == \A s \in DOMAIN segs : segs[s].next # NULL => segs[s].next > s

\* C14: every update of head or of tail replaces a segment by its immediate
\* successor, a next link is written at most once, and (links leading only
\* to later segments) neither head nor tail returns to a segment it left.
C14_ForwardOnly == [][PointerSteps]_vars /\ []LinksForward

\* C14 witness: head and tail have both left the first segment, and a
\* producer's CAS of a next link has failed (its segment shell was freed).
C14_Witness ==
    /\ ~dropped /\ head # 1 /\ tail # 1
    /\ \E s \in DOMAIN segs : s \notin Linked /\ segs[s].freed > 0

\* what one step may do to the records of retirement and freeing: a segment
\* is retired in the step that moves head off it; a segment is freed by the
\* reclamation domain (after retirement), by teardown (when reachable from
\* head) or, for a shell that was never linked, by the producer holding it
LifecycleSteps ==
    \A s \in DOMAIN segs :
        /\ segs'[s].retired # segs[s].retired => head = s /\ head' # s
        /\ segs'[s].freed # segs[s].freed =>
              \/ dropped' /\ ~dropped /\ s \in Range(Chain)
              \/ dropped' = dropped /\ s \in Linked /\ segs[s].retired > 0
              \/ dropped' = dropped /\ s \notin Linked
                   /\ \E t \in Threads : pc[t] = "E63" /\ lnext[t] = s

\* no segment is retired twice or freed twice; a segment reachable from head
\* has not been retired; a shell that lost the link race is never retired
\* and stays out of the chain
AtMostOnce ==
    \A s \in DOMAIN segs :
        /\ segs[s].retired <= 1
        /\ segs[s].freed <= 1
        /\ s \in Range(Chain) => segs[s].retired = 0
        /\ s \notin Linked => segs[s].retired = 0

\* C16: every segment is retired at most once, by the dequeue whose head CAS
\* moved head off it, and freed at most once; a shell that lost the link race
\* is freed by its producer and is never linked or retired; teardown frees
\* only the segments reachable from head, none of which has been retired.
C16_FreedOnce == [][LifecycleSteps]_vars /\ []AtMostOnce

\* C16 witness: the queue was destroyed after a segment had been retired and
\* freed by the domain and a shell had been freed by its producer.
C16_Witness ==
    /\ dropped
    /\ \E s \in Linked : segs[s].retired = 1 /\ segs[s].freed = 1
    /\ \E s \in DOMAIN segs : s \notin Linked /\ segs[s].freed = 1

\* thread t's slot CAS of this step failed
CasFailed(t) == pc[t] = "E88" /\ pc'[t] # "E88" /\ pc'[t] # "idle"

\* C17 as stated: the CAS of a slot from Empty to the item, at an in-bounds
\* index reserved by fetch-and-add, never fails.
C17_CasNeverFails == [][\A t \in Threads : ~CasFailed(t)]_vars

\* a producer about to CAS finds its slot Empty or Taken, never holding
\* another item
SlotMineOrHole ==
    \A t \in Threads :
        pc[t] = "E88" => /\ idx[t] \in Slots
                         /\ segs[ltail[t]].array[idx[t]] \in {NULL, TAKEN}

\* C17 amended: the CAS of a slot from Empty to the item, at an in-bounds
\* index reserved by fetch-and-add, fails only when a dequeue that reserved
\* the same index has already swapped the slot from Empty to Taken; the slot
\* never holds another producer's item.
C17_CasFailsOnHole ==
    /\ [][\A t \in Threads :
             CasFailed(t) => /\ segs[ltail[t]].array[idx[t]] = TAKEN
                             /\ <<ltail[t], idx[t]>> \in holes]_vars
    /\ []SlotMineOrHole

\* C17 witness: an enqueue is back at the start of its loop on a tail segment
\* that has never been full, so its slot CAS has failed; the segment has a
\* hole.
C17_Witness ==
    \E t \in Threads :
        /\ pc[t] = "E51"
        /\ segs[ltail[t]].enqueue_index <= BUFFER_SIZE
        /\ \E h \in holes : h[1] = ltail[t]

\* C18 as stated: whenever a dequeue's swap finds its slot Empty, the index
\* of the slot is below the segment's enqueue_index (some enqueue's
\* fetch-and-add has reserved it).
C18_HoleWasReserved ==
    [][\A t \in Threads :
         (pc[t] = "D122" /\ pc'[t] = "D99") => idx[t] < segs[ltail[t]].enqueue_index]_vars

\* C18 amended: a dequeue reserves an in-bounds index at or beyond the
\* segment's enqueue_index only when other dequeues have advanced
\* dequeue_index between its read of line 100 and its fetch-and-add of line
\* 105 (a hole at an index no enqueue has reserved comes from such a dequeue
\* only).
C18_OvershootIsRace ==
    [][\A t \in Threads :
         (pc[t] = "D105" /\ pc'[t] = "D122"
             /\ idx'[t] >= segs[ltail[t]].enqueue_index)
         => idx'[t] > deqSeen[t]]_vars

\* C18 witness: a segment has a hole at an index that no enqueue has
\* reserved.
C18_Witness == \E h \in holes : h[2] >= segs[h[1]].enqueue_index

\* the items Occupied in the head segment
HeadItems == {segs[head].array[k] : k \in Slots} \ {NULL, TAKEN}

\* C19: teardown frees the head segment without scanning it: an item still
\* Occupied in a slot of the head segment when the queue is destroyed is not
\* dropped (and has not been returned by any dequeue).
C19_HeadItemsLeak ==
    dropped =>
        /\ segs[head].freed = 1
        /\ \A a \in HeadItems : hist[a].drops = 0 /\ hist[a].taken = 0

\* C19 witness: the queue was destroyed with an item Occupied in the head
\* segment and another in a later segment (which teardown dropped).
C19_Witness ==
    /\ dropped /\ HeadItems # {}
    /\ \E a \in AfterHead : hist[a].drops = 1

\* C20: no slot of a segment after the head segment in the chain is Taken,
\* so the teardown scan never hands the Taken sentinel to Box::from_raw.
C20_NoTakenAfterHead ==
    /\ \A s \in Range(Tail(Chain)) : \A k \in Slots : segs[s].array[k] # TAKEN
    /\ ~badDrop

\* C20 witness: the queue was destroyed with a Taken slot in the head
\* segment and a later segment to scan; a segment head has left holds a
\* hole.
C20_Witness ==
    /\ dropped /\ Len(Chain) >= 2
    /\ \E k \in Slots : segs[head].array[k] = TAKEN
    /\ \E h \in holes : h[1] \notin Range(Chain)
====
